---- MODULE Spec2Model ----
(***************************************************************************)
(* Model of the document-grounded question-answering engine of             *)
(* app/qa/pipeline.py: context normalization, history folding, model       *)
(* resolution, the bounded retry loop around the inference backend, and    *)
(* answer extraction.                                                      *)
(*                                                                         *)
(* Python strings that the code inspects character by character (context,  *)
(* questions, answers) are sequences of one-character strings; identifiers *)
(* that the code only compares (model ids, backend model names) are atoms. *)
(* An optional value (x | None) is <<>> for None and <<x>> for x.          *)
(*                                                                         *)
(* call is the answer_with_history (or _normalize_context) call in         *)
(* progress; app is the process around it (the server with its requests,   *)
(* its documents, its chat title and its message store, or the threads of  *)
(* a program calling the function directly), and NoApp when a call is      *)
(* studied on its own.                                                     *)
(***************************************************************************)
EXTENDS Integers, Sequences, FiniteSets, TLC

VARIABLES call, app

vars == <<call, app>>

NoApp == [phase |-> "NONE"]

---------------------------------------------------------------------------
(* Bounds of the explored input space. *)

MaxStrLen == 2
MaxListLen == 2
MaxHist == 2
MaxItems == 2

---------------------------------------------------------------------------
(* Program constants. *)

MAX_RETRIES == 3
RETRY_BACKOFF_BASE == 2

EMPTY_CONTEXT_FALLBACK ==
    <<"N","o"," ","c","o","n","t","e","x","t"," ",
      "p","r","o","v","i","d","e","d",".">>

QA_MODELS ==
    << [id |-> "tinybert", name |-> "TinyBERT", model |-> "Intel/dynamic_tinybert"],
       [id |-> "distilbert", name |-> "DistilBERT",
        model |-> "distilbert/distilbert-base-cased-distilled-squad"],
       [id |-> "bert-base", name |-> "BERT Base Uncased",
        model |-> "deepset/bert-base-uncased-squad2"],
       [id |-> "deberta-v3-base", name |-> "DeBERTa v3 Base",
        model |-> "deepset/deberta-v3-base-squad2"],
       [id |-> "electra-base", name |-> "ELECTRA Base",
        model |-> "deepset/electra-base-squad2"],
       [id |-> "roberta-large", name |-> "RoBERTa Large",
        model |-> "deepset/roberta-large-squad2"] >>

QA_DEFAULT_MODEL == "distilbert"

(* The literal between the document context and the rendered history,    *)
(* "\n\n---\nPrevious Q&A:\n".                                            *)
HistoryMarker ==
    <<"\n","\n","-","-","-","\n",
      "P","r","e","v","i","o","u","s"," ","Q","&","A",":","\n">>

---------------------------------------------------------------------------
(* Python string primitives. *)

Whitespace == {" ", "\n", "\t"}

RECURSIVE lstrip(_)
lstrip(s) ==
    IF s # <<>> /\ Head(s) \in Whitespace THEN lstrip(Tail(s)) ELSE s

RECURSIVE rstrip(_)
rstrip(s) ==
    IF s # <<>> /\ s[Len(s)] \in Whitespace
    THEN rstrip(SubSeq(s, 1, Len(s) - 1))
    ELSE s

strip(s) == rstrip(lstrip(s))

(* sep.join(parts) *)
RECURSIVE join(_, _)
join(sep, parts) ==
    IF parts = <<>> THEN <<>>
    ELSE IF Len(parts) = 1 THEN parts[1]
    ELSE parts[1] \o sep \o join(sep, Tail(parts))

(* Truthiness of a str: non-empty. *)
StrTruthy(s) == s # <<>>

---------------------------------------------------------------------------
(* _normalize_context: a context is [kind, str, list]; kind "str" uses    *)
(* the field str, kind "list" the field list, any other kind neither.     *)

StrContext(s) == [kind |-> "str", str |-> s, list |-> <<>>]
ListContext(l) == [kind |-> "list", str |-> <<>>, list |-> l]
OtherContext == [kind |-> "other", str |-> <<>>, list |-> <<>>]

(* Variant: the surviving elements kept as they are, not trimmed. *)
RECURSIVE StrippedParts_Untrimmed(_)
StrippedParts_Untrimmed(l) ==
    IF l = <<>> THEN <<>>
    ELSE IF StrTruthy(Head(l)) /\ StrTruthy(strip(Head(l)))
         THEN <<Head(l)>> \o StrippedParts_Untrimmed(Tail(l))
         ELSE StrippedParts_Untrimmed(Tail(l))

(* Variant: the filter dropped, every element trimmed and kept. *)
RECURSIVE StrippedParts_KeepsBlank(_)
StrippedParts_KeepsBlank(l) ==
    IF l = <<>> THEN <<>>
    ELSE <<strip(Head(l))>> \o StrippedParts_KeepsBlank(Tail(l))

(* [s.strip() for s in context if s and s.strip()] *)
RECURSIVE StrippedParts(_)
StrippedParts(l) ==
    IF l = <<>> THEN <<>>
    ELSE IF StrTruthy(Head(l)) /\ StrTruthy(strip(Head(l)))
         THEN <<strip(Head(l))>> \o StrippedParts(Tail(l))
         ELSE StrippedParts(Tail(l))

_normalize_context(context) ==
    IF context.kind = "str" THEN strip(context.str)
    ELSE IF context.kind = "list"
         THEN LET parts == StrippedParts(context.list)
              IN  IF parts # <<>> THEN join(<<"\n", "\n">>, parts) ELSE <<>>
         ELSE <<>>

---------------------------------------------------------------------------
(* History folding. A turn is <<question, answer>>. *)

(* f"Q: {q}\nA: {a}" *)
RenderTurn(turn) ==
    <<"Q", ":", " ">> \o turn[1] \o <<"\n", "A", ":", " ">> \o turn[2]

(* Variant: the turns rendered newest first. *)
RenderHistory_Reversed(history) ==
    join(<<"\n">>, [i \in 1..Len(history) |->
                        RenderTurn(history[Len(history) + 1 - i])])

(* "\n".join(f"Q: {q}\nA: {a}" for q, a in history) *)
RenderHistory(history) ==
    join(<<"\n">>, [i \in 1..Len(history) |-> RenderTurn(history[i])])

(* if history: ctx = f"{ctx}\n\n---\nPrevious Q&A:\n{history_str}" *)
FoldHistory(ctx, history) ==
    IF history # <<>>
    THEN ctx \o HistoryMarker \o RenderHistory(history)
    ELSE ctx

(* Variant: "and" written for "or", so the empty string passes. *)
IsEmptyContext_AndForOr(ctx) == StrTruthy(ctx) /\ ~StrTruthy(strip(ctx))

(* if not ctx or not ctx.strip() *)
IsEmptyContext(ctx) == ~StrTruthy(ctx) \/ ~StrTruthy(strip(ctx))

---------------------------------------------------------------------------
(* Model catalog lookup. *)

(* model_id or QA_DEFAULT_MODEL: None and "" both select the default. *)
DefaultedModelId(model_id) ==
    IF model_id # <<>> /\ model_id[1] # "" THEN model_id[1] ELSE QA_DEFAULT_MODEL

(* Variant: a miss falls back to the default entry instead of None. *)
LookupModel_DefaultOnMiss(mid) ==
    LET hits == {i \in 1..Len(QA_MODELS) : QA_MODELS[i].id = mid}
        dflt == {i \in 1..Len(QA_MODELS) : QA_MODELS[i].id = QA_DEFAULT_MODEL}
    IN  IF hits = {} THEN << QA_MODELS[CHOOSE i \in dflt : TRUE] >>
        ELSE << QA_MODELS[CHOOSE i \in hits : \A j \in hits : i <= j] >>

(* next((m for m in QA_MODELS if m["id"] == mid), None) *)
LookupModel(mid) ==
    LET hits == {i \in 1..Len(QA_MODELS) : QA_MODELS[i].id = mid}
    IN  IF hits = {} THEN <<>>
        ELSE << QA_MODELS[CHOOSE i \in hits : \A j \in hits : i <= j] >>

---------------------------------------------------------------------------
(* Values the backend can return. A dict is [answer, extra]: answer is    *)
(* <<>> when the key "answer" is absent and <<s>> when it maps to s;      *)
(* extra says whether other keys (score, start, end) are present.         *)

PyNone == [t |-> "none", dict |-> [answer |-> <<>>, extra |-> FALSE],
           items |-> <<>>, truthy |-> FALSE]
PyDict(d) == [t |-> "dict", dict |-> d, items |-> <<>>, truthy |-> FALSE]
PyList(l) == [t |-> "list", dict |-> [answer |-> <<>>, extra |-> FALSE],
              items |-> l, truthy |-> FALSE]
(* Any value that is neither None, a list nor a dict (a str, a number).  *)
PyOther(b) == [t |-> "other", dict |-> [answer |-> <<>>, extra |-> FALSE],
               items |-> <<>>, truthy |-> b]

DictTruthy(d) == d.answer # <<>> \/ d.extra

(* bool(result) *)
Truthy(v) ==
    CASE v.t = "none" -> FALSE
      [] v.t = "dict" -> DictTruthy(v.dict)
      [] v.t = "list" -> Len(v.items) > 0
      [] OTHER -> v.truthy

(* d.get("answer", default) *)
DictGetAnswer(d, default) == IF d.answer # <<>> THEN d.answer[1] ELSE default

(* Variant: the last candidate of a list taken instead of the first. *)
ExtractAnswerText_LastItem(result) ==
    IF ~Truthy(result) THEN EMPTY_CONTEXT_FALLBACK
    ELSE IF result.t = "list" /\ Len(result.items) > 0
         THEN DictGetAnswer(result.items[Len(result.items)],
                            EMPTY_CONTEXT_FALLBACK)
    ELSE IF result.t = "dict"
         THEN DictGetAnswer(result.dict, EMPTY_CONTEXT_FALLBACK)
    ELSE EMPTY_CONTEXT_FALLBACK

(* The extraction policy applied to a response. *)
ExtractAnswerText(result) ==
    IF ~Truthy(result) THEN EMPTY_CONTEXT_FALLBACK
    ELSE IF result.t = "list" /\ Len(result.items) > 0
         THEN DictGetAnswer(result.items[1], EMPTY_CONTEXT_FALLBACK)
    ELSE IF result.t = "dict"
         THEN DictGetAnswer(result.dict, EMPTY_CONTEXT_FALLBACK)
    ELSE EMPTY_CONTEXT_FALLBACK

---------------------------------------------------------------------------
(* Exceptions. at is the 0-based attempt whose backend call raised it     *)
(* (-1 when it was not raised by a backend call).                          *)

HfHubHTTPError(status, at) ==
    [kind |-> "HfHubHTTPError", status |-> status, at |-> at, msg |-> "http"]
OtherError(kind, at) == [kind |-> kind, status |-> 0, at |-> at, msg |-> ""]
ValueError(msg) == [kind |-> "ValueError", status |-> 0, at |-> -1, msg |-> msg]

(* What one call of client.question_answering can do. *)
Returns(v) == [ok |-> TRUE, value |-> v, exc |-> OtherError("", 0)]
Raises(e) == [ok |-> FALSE, value |-> PyNone, exc |-> e]

---------------------------------------------------------------------------
(* Observable events of a call, in program order. *)

LogEvent(level, msg, attempt, status, wait) ==
    [ev |-> "log", level |-> level, msg |-> msg, attempt |-> attempt,
     status |-> status, wait |-> wait]
LookupEvent(mid) == [ev |-> "lookup", mid |-> mid]
(* InferenceClient(provider="hf-inference", api_key=token, timeout=...) *)
ClientEvent(api_key) == [ev |-> "client", api_key |-> api_key]
SleepEvent(seconds) == [ev |-> "sleep", seconds |-> seconds]
CallEvent(question, context, model) ==
    [ev |-> "call", question |-> question, context |-> context,
     model |-> model, max_seq_len |-> 384, doc_stride |-> 128,
     handle_impossible_answer |-> TRUE]

---------------------------------------------------------------------------
(* One answer_with_history call. pc is the phase about to run. *)

NewCall(question, context, history, model_id) ==
    [pc |-> "NORMALIZE", entry |-> "answer_with_history",
     question |-> question, context |-> context,
     history |-> history, model_id |-> model_id,
     mid |-> "", ctx |-> <<>>, model_config |-> <<>>, client |-> FALSE,
     attempt |-> 0, wait |-> 0, has_result |-> FALSE, result |-> PyNone,
     ret |-> <<>>, error |-> <<>>, events |-> <<>>, outcomes |-> <<>>]

(* answer(question, context): single turn, default model. *)
answer(question, context) ==
    [NewCall(question, context, <<>>, <<QA_DEFAULT_MODEL>>)
        EXCEPT !.entry = "answer"]

Return(c, pc, text) == [c EXCEPT !.pc = pc, !.ret = <<text>>]
Raise(c, e) == [c EXCEPT !.pc = "FATAL_ERROR", !.error = <<e>>]
Emit(c, e) == [c EXCEPT !.events = Append(@, e)]

(* Variant: the model id is looked up first, before the context is       *)
(* normalized and checked.                                                *)
NormalizeStep_LookupFirst(c) ==
    LET mid == DefaultedModelId(c.model_id)
        c1 == Emit([c EXCEPT !.mid = mid], LookupEvent(mid))
    IN  IF LookupModel(mid) = <<>>
        THEN Raise(c1, ValueError("Unknown model id"))
        ELSE [c1 EXCEPT !.pc = "CHECK_EMPTY",
                        !.ctx = FoldHistory(_normalize_context(c.context),
                                            c.history)]

(* mid = model_id or QA_DEFAULT_MODEL; ctx = normalized context with the  *)
(* history folded in.                                                     *)
NormalizeStep(c) ==
    [c EXCEPT !.pc = "CHECK_EMPTY",
              !.mid = DefaultedModelId(c.model_id),
              !.ctx = FoldHistory(_normalize_context(c.context), c.history)]

(* Variant: the emptiness check looks at the document context alone. *)
CheckEmptyStep_DocsOnly(c) ==
    IF IsEmptyContext(_normalize_context(c.context))
    THEN Return(c, "EMPTY_FALLBACK", EMPTY_CONTEXT_FALLBACK)
    ELSE [c EXCEPT !.pc = "RESOLVE_MODEL"]

(* if not ctx or not ctx.strip(): return EMPTY_CONTEXT_FALLBACK *)
CheckEmptyStep(c) ==
    IF IsEmptyContext(c.ctx)
    THEN Return(c, "EMPTY_FALLBACK", EMPTY_CONTEXT_FALLBACK)
    ELSE [c EXCEPT !.pc = "RESOLVE_MODEL"]

(* Catalog lookup; unknown id raises, a known one is logged. *)
ResolveModelStep(c) ==
    LET found == LookupModel(c.mid)
        c1 == Emit(c, LookupEvent(c.mid))
    IN  IF found = <<>>
        THEN Raise(c1, ValueError("Unknown model id"))
        ELSE [Emit(c1, LogEvent("info", "inference_start", 0, 0, 0))
                EXCEPT !.pc = "GET_CLIENT", !.model_config = found]

(* Variant: "if not token" alone, a whitespace-only token passes. *)
TokenMissing_NoStrip(token) ==
    token = <<>> \/ ~StrTruthy(token[1])

(* if not token or not token.strip() *)
TokenMissing(token) ==
    token = <<>> \/ ~StrTruthy(token[1]) \/ ~StrTruthy(strip(token[1]))

(* client = _get_client(), token being os.environ.get("HF_TOKEN") *)
GetClientStep(c, token) ==
    IF TokenMissing(token)
    THEN Raise(c, ValueError("HF_TOKEN environment variable is required"))
    ELSE [Emit(c, ClientEvent(token[1])) EXCEPT !.pc = "INVOKE", !.client = TRUE,
                                      !.attempt = 0]

(* Variant: the status test dropped, every HTTP error is retried. *)
ShouldRetry_AnyStatus(attempt, e) ==
    /\ e.kind = "HfHubHTTPError"
    /\ attempt < MAX_RETRIES - 1

(* Variant: every 5xx status is retried. *)
ShouldRetry_Any5xx(attempt, e) ==
    /\ e.kind = "HfHubHTTPError"
    /\ attempt < MAX_RETRIES - 1
    /\ e.status >= 500

(* Variant: off by one, the last attempt is retried too. *)
ShouldRetry_OffByOne(attempt, e) ==
    /\ e.kind = "HfHubHTTPError"
    /\ attempt < MAX_RETRIES
    /\ e.status \in {503, 504}

(* Variant: the attempt test dropped, a 503/504 is always retried. *)
ShouldRetry_Unbounded(attempt, e) ==
    /\ e.kind = "HfHubHTTPError"
    /\ e.status \in {503, 504}

(* except HfHubHTTPError: retry condition *)
ShouldRetry(attempt, e) ==
    /\ e.kind = "HfHubHTTPError"
    /\ attempt < MAX_RETRIES - 1
    /\ e.status \in {503, 504}

(* Variant: linear instead of exponential backoff. *)
Backoff_Linear(attempt) == RETRY_BACKOFF_BASE * attempt

(* Variant: the exponent is the 1-based number of the failed attempt. *)
Backoff_OneBased(attempt) == RETRY_BACKOFF_BASE ^ (attempt + 1)

(* wait = RETRY_BACKOFF_BASE ** attempt *)
Backoff(attempt) == RETRY_BACKOFF_BASE ^ attempt

(* Variant: a retry sends the question alone, without the context. *)
QuestionAnswering_RetryDropsContext(c, o) ==
    [Emit(c, CallEvent(c.question, IF c.attempt = 0 THEN c.ctx ELSE <<>>,
                       c.model_config[1].model))
        EXCEPT !.outcomes = Append(@, o)]

(* client.question_answering(...): the arguments are recorded as a call  *)
(* event and what the backend did with them in outcomes.                  *)
QuestionAnswering(c, o) ==
    [Emit(c, CallEvent(c.question, c.ctx, c.model_config[1].model))
        EXCEPT !.outcomes = Append(@, o)]

(* One iteration of the retry loop up to its break, sleep or raise:       *)
(* o is what this call of question_answering does.                        *)
InvokeStep(c, o) ==
    LET c1 == QuestionAnswering(c, o)
    IN  IF o.ok
        THEN [c1 EXCEPT !.pc = "EXTRACT_ANSWER", !.has_result = TRUE,
                        !.result = o.value]
        ELSE IF o.exc.kind # "HfHubHTTPError"
        THEN Raise(c1, o.exc)
        ELSE IF ShouldRetry(c.attempt, o.exc)
        THEN [Emit(c1, LogEvent("warning", "inference_retry", c.attempt + 1,
                                o.exc.status, Backoff(c.attempt)))
                EXCEPT !.pc = "RETRY_WAIT", !.wait = Backoff(c.attempt)]
        ELSE Raise(Emit(c1, LogEvent("error", "inference_failed", 0,
                                     o.exc.status, 0)),
                   o.exc)

(* time.sleep(wait); continue: the next iteration of                     *)
(* for attempt in range(MAX_RETRIES), or the end of the loop.             *)
RetryWaitStep(c) ==
    [Emit(c, SleepEvent(c.wait))
        EXCEPT !.pc = IF c.attempt + 1 < MAX_RETRIES
                      THEN "INVOKE" ELSE "EXTRACT_ANSWER",
               !.attempt = c.attempt + 1]

(* Lines after the loop: extract the answer, log, return. Reading result *)
(* when no iteration assigned it raises UnboundLocalError.                *)
ExtractAnswerStep(c) ==
    IF ~c.has_result
    THEN Raise(c, OtherError("UnboundLocalError", -1))
    ELSE Return(Emit(c, LogEvent("info", "inference_done", 0, 0, 0)),
                "DONE", ExtractAnswerText(c.result))

---------------------------------------------------------------------------
(* Inputs and environment. *)

(* All strings over alphabet of length at most n. *)
Strs(alphabet, n) == UNION {[1..k -> alphabet] : k \in 0..n}

(* All lists over elems of length at most n. *)
Lists(elems, n) == UNION {[1..k -> elems] : k \in 0..n}

ContextChars == {"a", " "}

(* Document texts: empty, whitespace-only, plain, needing a trim. *)
DocTexts == {<<>>, <<" ">>, <<"a">>, <<" ", "b", "\n">>}

Contexts ==
    {StrContext(s) : s \in Strs(ContextChars, MaxStrLen)}
    \cup {ListContext(l) : l \in Lists(DocTexts, MaxListLen)}
    \cup {OtherContext}

HistTurns == {<< <<"q">>, <<"r">> >>, << <<"s">>, <<>> >>}
Histories == Lists(HistTurns, MaxHist)

Questions == {<<"w", "?">>}

(* None, "", a catalog id other than the default, an id not in the       *)
(* catalog; answer passes the default id itself.                          *)
ModelIds == {<<>>, <<"">>, <<"tinybert">>, <<"nope">>}

Tokens == {<<>>, << <<>> >>, << <<" ">> >>, << <<"t">> >>}

(* Response objects: {}, one without the key "answer", one with it. *)
EmptyDict == [answer |-> <<>>, extra |-> FALSE]
ScoreOnly == [answer |-> <<>>, extra |-> TRUE]
Answered == [answer |-> << <<"y">> >>, extra |-> TRUE]

BackendDicts == {EmptyDict, ScoreOnly, Answered}

(* Response shapes: None, a falsy and a truthy value of another type, a   *)
(* single object, a list of at most MaxItems candidate objects.           *)
BackendValues ==
    {PyNone, PyOther(FALSE), PyOther(TRUE)}
    \cup {PyDict(d) : d \in BackendDicts}
    \cup {PyList(l) : l \in Lists(BackendDicts, MaxItems)}

(* The shapes the tests' mocks return, and None. *)
TypicalValues == {PyNone, PyDict(Answered), PyList(<<Answered>>)}

HttpStatuses == {500, 503, 504}

(* What the backend may do at one attempt, returning one of values. *)
BackendOutcomes(values, attempt) ==
    {Returns(v) : v \in values}
    \cup {Raises(HfHubHTTPError(st, attempt)) : st \in HttpStatuses}
    \cup {Raises(OtherError(k, attempt)) :
             k \in {"InferenceTimeoutError", "Exception"}}

---------------------------------------------------------------------------
(* The state machine of one call. *)

Init ==
    /\ app = NoApp
    /\ \E q \in Questions, cx \in Contexts :
          \/ \E h \in Histories, m \in ModelIds : call = NewCall(q, cx, h, m)
          \/ call = answer(q, cx)

Normalize ==
    /\ call.pc = "NORMALIZE"
    /\ call' = NormalizeStep(call)
    /\ UNCHANGED app

CheckEmpty ==
    /\ call.pc = "CHECK_EMPTY"
    /\ call' = CheckEmptyStep(call)
    /\ UNCHANGED app

ResolveModel ==
    /\ call.pc = "RESOLVE_MODEL"
    /\ call' = ResolveModelStep(call)
    /\ UNCHANGED app

GetClient ==
    /\ call.pc = "GET_CLIENT"
    /\ \E token \in Tokens : call' = GetClientStep(call, token)
    /\ UNCHANGED app

Invoke ==
    /\ call.pc = "INVOKE"
    /\ \E o \in BackendOutcomes(TypicalValues, call.attempt) :
          call' = InvokeStep(call, o)
    /\ UNCHANGED app

RetryWait ==
    /\ call.pc = "RETRY_WAIT"
    /\ call' = RetryWaitStep(call)
    /\ UNCHANGED app

ExtractAnswer ==
    /\ call.pc = "EXTRACT_ANSWER"
    /\ call' = ExtractAnswerStep(call)
    /\ UNCHANGED app

Next ==
    \/ Normalize
    \/ CheckEmpty
    \/ ResolveModel
    \/ GetClient
    \/ Invoke
    \/ RetryWait
    \/ ExtractAnswer

Spec == Init /\ [][Next]_vars

---------------------------------------------------------------------------
(* The same call over a few inputs and a backend that returns every       *)
(* response shape.                                                         *)

InitShapes ==
    /\ app = NoApp
    /\ \E q \in Questions, h \in Lists(HistTurns, 1),
          m \in {<<>>, <<"tinybert">>} :
          call = NewCall(q, StrContext(<<"a">>), h, m)

InvokeAnyShape ==
    /\ call.pc = "INVOKE"
    /\ \E o \in BackendOutcomes(BackendValues, call.attempt) :
          call' = InvokeStep(call, o)
    /\ UNCHANGED app

NextShapes ==
    \/ Normalize
    \/ CheckEmpty
    \/ ResolveModel
    \/ GetClient
    \/ InvokeAnyShape
    \/ RetryWait
    \/ ExtractAnswer

SpecShapes == InitShapes /\ [][NextShapes]_vars

---------------------------------------------------------------------------
(* Vocabulary of the properties. *)

Terminal(c) == c.pc \in {"EMPTY_FALLBACK", "DONE", "FATAL_ERROR"}

(* The backend calls and the sleeps of a call, in order. *)
Calls(c) == SelectSeq(c.events, LAMBDA e : e.ev = "call")
Sleeps(c) == SelectSeq(c.events, LAMBDA e : e.ev = "sleep")

(* A string of whitespace only (the empty string included). *)
BlankStr(s) == \A i \in 1..Len(s) : s[i] \in Whitespace

(* An empty or whitespace-only string, an empty list, or a list of only   *)
(* empty or whitespace-only strings.                                       *)
BlankContext(cx) ==
    \/ cx.kind = "str" /\ BlankStr(cx.str)
    \/ cx.kind = "list" /\ \A i \in 1..Len(cx.list) : BlankStr(cx.list[i])

(* A backend outcome that is an HTTP 503 or 504 failure. *)
Transient(o) ==
    ~o.ok /\ o.exc.kind = "HfHubHTTPError" /\ o.exc.status \in {503, 504}

(* A backend outcome that is any other failure. *)
NonTransientFailure(o) == ~o.ok /\ ~Transient(o)

---------------------------------------------------------------------------
(* C1 as stated: whenever the context is an empty or whitespace-only      *)
(* string, an empty list, or a list of only empty or whitespace-only      *)
(* strings, the call makes no backend call and, once over, has returned   *)
(* the fixed fallback string, whatever the history.                       *)
C1_FallbackForAnyHistory ==
    BlankContext(call.context) =>
        /\ Calls(call) = <<>>
        /\ Terminal(call) =>
              call.pc = "EMPTY_FALLBACK" /\ call.ret = <<EMPTY_CONTEXT_FALLBACK>>

(* C1 amended: with such a context and an empty history (as answer always *)
(* passes), the call never gets past the emptiness check, makes no        *)
(* backend call, raises nothing and returns exactly the fallback string.  *)
C1_EmptyContextFallback ==
    (BlankContext(call.context) /\ call.history = <<>>) =>
        /\ Calls(call) = <<>>
        /\ call.error = <<>>
        /\ call.pc \in {"NORMALIZE", "CHECK_EMPTY", "EMPTY_FALLBACK"}
        /\ call.pc = "EMPTY_FALLBACK" => call.ret = <<EMPTY_CONTEXT_FALLBACK>>

C1_Witness ==
    /\ call.entry = "answer"
    /\ call.context.kind = "list"
    /\ Len(call.context.list) = 2
    /\ BlankContext(call.context)
    /\ call.pc = "EMPTY_FALLBACK"
    /\ call.ret = <<EMPTY_CONTEXT_FALLBACK>>

---------------------------------------------------------------------------
(* C2: the backend is called at most MAX_RETRIES = 3 times; a call        *)
(* follows another only if that one failed with HTTP 503 or 504 and was   *)
(* attempt n < MAX_RETRIES - 1; nothing follows a successful call.        *)
C2_BoundedRetry ==
    LET n == Len(Calls(call))
    IN  /\ MAX_RETRIES = 3
        /\ n <= 3
        /\ Len(call.outcomes) = n
        /\ \A k \in 1..n :
              k < n => /\ Transient(call.outcomes[k])
                       /\ ~call.outcomes[k].ok
                       /\ k - 1 < MAX_RETRIES - 1

C2_Witness ==
    /\ Len(Calls(call)) = 3
    /\ call.outcomes[3].ok
    /\ call.pc = "DONE"

---------------------------------------------------------------------------
(* A backend outcome that is an HTTP 503 failure. *)
Is503(o) == ~o.ok /\ o.exc.kind = "HfHubHTTPError" /\ o.exc.status = 503

(* C3: when the first two backend calls raise 503 and the third succeeds, *)
(* there are exactly two waits, of 1 then 2 seconds, exactly three        *)
(* backend calls, and the call returns the answer of the third response.  *)
C3_TwoRetriesThenSuccess ==
    (/\ Len(call.outcomes) >= 3
     /\ Is503(call.outcomes[1])
     /\ Is503(call.outcomes[2])
     /\ call.outcomes[3].ok) =>
        /\ Len(Calls(call)) = 3
        /\ Sleeps(call) = <<SleepEvent(1), SleepEvent(2)>>
        /\ call.error = <<>>
        /\ call.pc \in {"EXTRACT_ANSWER", "DONE"}
        /\ (call.pc = "DONE" /\ call.outcomes[3].value.t = "dict"
              /\ call.outcomes[3].value.dict.answer # <<>>) =>
                 call.ret = call.outcomes[3].value.dict.answer
        /\ (call.pc = "DONE" /\ call.outcomes[3].value.t = "list"
              /\ Len(call.outcomes[3].value.items) > 0
              /\ call.outcomes[3].value.items[1].answer # <<>>) =>
                 call.ret = call.outcomes[3].value.items[1].answer

C3_Witness ==
    /\ Len(call.outcomes) = 3
    /\ Is503(call.outcomes[1])
    /\ Is503(call.outcomes[2])
    /\ call.outcomes[3].ok
    /\ call.pc = "DONE"
    /\ call.ret = << <<"y">> >>

---------------------------------------------------------------------------
(* C4: a backend failure that is not a 503/504 signal is the last thing   *)
(* the call does with the backend: no call and no wait follows it, the    *)
(* call is over with that very error raised, and nothing is returned.     *)
C4_FatalNotRetried ==
    \A k \in 1..Len(call.outcomes) :
        NonTransientFailure(call.outcomes[k]) =>
            /\ k = Len(call.outcomes)
            /\ Len(Calls(call)) = k
            /\ Len(Sleeps(call)) = k - 1
            /\ call.pc = "FATAL_ERROR"
            /\ call.error = <<call.outcomes[k].exc>>
            /\ call.error[1].at = k - 1
            /\ call.ret = <<>>

C4_Witness ==
    /\ Len(call.outcomes) = 2
    /\ Transient(call.outcomes[1])
    /\ call.outcomes[2].exc.kind = "InferenceTimeoutError"
    /\ call.pc = "FATAL_ERROR"

---------------------------------------------------------------------------
(* C5: when three attempts have failed with 503/504 the call is over with *)
(* the third attempt's error raised, nothing returned, exactly three      *)
(* backend calls and exactly two waits, the last of them before the third *)
(* call.                                                                   *)
C5_ExhaustionRaises ==
    (/\ Len(call.outcomes) >= 3
     /\ \A k \in 1..3 : Transient(call.outcomes[k])) =>
        /\ Len(call.outcomes) = 3
        /\ Len(Calls(call)) = 3
        /\ Len(Sleeps(call)) = 2
        /\ call.pc = "FATAL_ERROR"
        /\ call.error = <<call.outcomes[3].exc>>
        /\ call.error[1].at = 2
        /\ call.ret = <<>>
        /\ call.events[Len(call.events)].ev # "sleep"
        /\ \A i \in 1..Len(call.events) :
              call.events[i].ev = "sleep" =>
                 \E j \in (i + 1)..Len(call.events) : call.events[j].ev = "call"

C5_Witness ==
    /\ Len(call.outcomes) = 3
    /\ \A k \in 1..3 : Transient(call.outcomes[k])
    /\ call.outcomes[1].exc.status # call.outcomes[3].exc.status
    /\ call.pc = "FATAL_ERROR"

---------------------------------------------------------------------------
(* The ids of the catalog. *)
CatalogIds == {QA_MODELS[i].id : i \in 1..Len(QA_MODELS)}

UnknownModelError == ValueError("Unknown model id")

(* C6 as stated: whenever the given model_id matches no catalog entry,    *)
(* the call makes no backend call and, once over, has raised the          *)
(* unknown-model error.                                                   *)
C6_UnknownModelAlwaysRaises ==
    (call.model_id # <<>> /\ call.model_id[1] \notin CatalogIds) =>
        /\ Calls(call) = <<>>
        /\ Terminal(call) =>
              call.pc = "FATAL_ERROR" /\ call.error = <<UnknownModelError>>

(* C6 amended: given a non-empty model_id that matches no catalog entry   *)
(* and a combined context that is not empty or whitespace-only, the call  *)
(* raises the unknown-model error at the lookup: no client is built, no   *)
(* backend call and no wait is made, nothing is returned.                 *)
C6_UnknownModelRaises ==
    (/\ call.model_id # <<>>
     /\ call.model_id[1] # ""
     /\ call.model_id[1] \notin CatalogIds
     /\ ~(_normalize_context(call.context) = <<>> /\ call.history = <<>>)) =>
        /\ Calls(call) = <<>>
        /\ Sleeps(call) = <<>>
        /\ ~call.client
        /\ call.ret = <<>>
        /\ call.pc \in {"NORMALIZE", "CHECK_EMPTY", "RESOLVE_MODEL", "FATAL_ERROR"}
        /\ call.pc = "FATAL_ERROR" => call.error = <<UnknownModelError>>

C6_Witness ==
    /\ call.model_id = <<"nope">>
    /\ call.history = <<>>
    /\ call.context.kind = "list"
    /\ call.pc = "FATAL_ERROR"
    /\ call.error = <<UnknownModelError>>
    /\ call.events = <<LookupEvent("nope")>>

---------------------------------------------------------------------------
(* Every event of kind b comes after some event of kind a. *)
EventBefore(c, a, b) ==
    \A j \in 1..Len(c.events) :
        c.events[j].ev = b => \E i \in 1..(j - 1) : c.events[i].ev = a

(* The state part of C7: what the events and the outcome of a call look  *)
(* like in each phase.                                                    *)
C7_PhaseState ==
    /\ (\E i \in 1..Len(call.events) : call.events[i].ev = "lookup") =>
          /\ call.pc \notin {"NORMALIZE", "CHECK_EMPTY", "EMPTY_FALLBACK"}
          /\ ~BlankStr(call.ctx)
    /\ EventBefore(call, "lookup", "client")
    /\ (\E i \in 1..Len(call.events) : call.events[i].ev = "client") =>
          call.model_config # <<>>
    /\ EventBefore(call, "client", "call")
    /\ EventBefore(call, "call", "sleep")
    /\ ~Terminal(call) => call.ret = <<>> /\ call.error = <<>>
    /\ call.pc = "EMPTY_FALLBACK" =>
          call.ret = <<EMPTY_CONTEXT_FALLBACK>> /\ call.error = <<>>
    /\ call.pc = "DONE" => call.ret # <<>> /\ call.error = <<>>
    /\ call.pc = "FATAL_ERROR" => call.ret = <<>> /\ call.error # <<>>

(* The step part of C7: the phase a call may move to from each phase. *)
C7_PhaseStep ==
    /\ ~Terminal(call)
    /\ call.pc = "NORMALIZE" => call'.pc = "CHECK_EMPTY"
    /\ call.pc = "CHECK_EMPTY" => call'.pc \in {"EMPTY_FALLBACK", "RESOLVE_MODEL"}
    /\ call.pc = "RESOLVE_MODEL" => call'.pc \in {"GET_CLIENT", "FATAL_ERROR"}
    /\ call.pc = "GET_CLIENT" =>
          \/ call'.pc = "INVOKE" /\ call'.attempt = 0
          \/ call'.pc = "FATAL_ERROR"
    /\ call.pc = "INVOKE" =>
          /\ call'.pc \in {"RETRY_WAIT", "EXTRACT_ANSWER", "FATAL_ERROR"}
          /\ call'.attempt = call.attempt
    /\ call.pc = "RETRY_WAIT" =>
          call'.pc = "INVOKE" /\ call'.attempt = call.attempt + 1
    /\ call.pc = "EXTRACT_ANSWER" => call'.pc = "DONE"

(* C7: the phases of a call follow the order NORMALIZE, CHECK_EMPTY,      *)
(* RESOLVE_MODEL, (client construction,) INVOKE(0), then RETRY_WAIT and   *)
(* INVOKE(attempt + 1) in pairs, EXTRACT_ANSWER, DONE; the catalog is     *)
(* looked up only with a non-empty combined context, the client is built  *)
(* only after the lookup succeeded, the backend is called only after the  *)
(* client was built; a call that is over has exactly one of a fallback    *)
(* return, an answer return and a raised error, and takes no more steps.  *)
C7_PhaseOrder == []C7_PhaseState /\ [][C7_PhaseStep]_vars

C7_Witness ==
    /\ call.pc = "DONE"
    /\ Len(Sleeps(call)) = 2
    /\ Len(Calls(call)) = 3
    /\ call.events[1].ev = "lookup"
    /\ call.events[3].ev = "client"

---------------------------------------------------------------------------
(* C8: the returned answer for every response shape: a falsy response     *)
(* gives the fallback string; a non-empty list gives element 0's answer   *)
(* field, or the fallback if the field is absent; a single object gives   *)
(* its answer field, or the fallback if absent; any other shape gives the *)
(* fallback.                                                               *)
C8_Extraction ==
    call.pc = "DONE" =>
        LET v == call.outcomes[Len(call.outcomes)].value
            fallback == <<EMPTY_CONTEXT_FALLBACK>>
            empty_dict == v.t = "dict" /\ v.dict.answer = <<>> /\ ~v.dict.extra
        IN  /\ call.outcomes[Len(call.outcomes)].ok
            /\ v.t = "none" => call.ret = fallback
            /\ empty_dict => call.ret = fallback
            /\ (v.t = "list" /\ v.items = <<>>) => call.ret = fallback
            /\ (v.t = "list" /\ v.items # <<>>) =>
                  call.ret = IF v.items[1].answer # <<>>
                             THEN v.items[1].answer ELSE fallback
            /\ (v.t = "dict" /\ ~empty_dict) =>
                  call.ret = IF v.dict.answer # <<>>
                             THEN v.dict.answer ELSE fallback
            /\ v.t = "other" => call.ret = fallback

C8_Witness ==
    /\ call.pc = "DONE"
    /\ LET v == call.outcomes[Len(call.outcomes)].value
       IN  /\ v.t = "list"
           /\ Len(v.items) = 2
           /\ v.items[1].answer = <<>>
           /\ v.items[1].extra
           /\ v.items[2].answer # <<>>
    /\ call.ret = <<EMPTY_CONTEXT_FALLBACK>>

---------------------------------------------------------------------------
(* The turns in their given order, each as the line "Q: {question}" and   *)
(* the line "A: {answer}", all lines separated by newlines.                *)
RECURSIVE HistoryBlock(_)
HistoryBlock(h) ==
    LET lines == <<"Q", ":", " ">> \o h[1][1] \o <<"\n">>
                 \o <<"A", ":", " ">> \o h[1][2]
    IN  IF Len(h) = 1 THEN lines ELSE lines \o <<"\n">> \o HistoryBlock(Tail(h))

(* C9: every backend call is given the normalized document context       *)
(* followed, when the history is non-empty, by the marker and the turns;  *)
(* with an empty history, the normalized document context alone.          *)
C9_ComposedContext ==
    LET expected == IF call.history # <<>>
                    THEN _normalize_context(call.context) \o HistoryMarker
                         \o HistoryBlock(call.history)
                    ELSE _normalize_context(call.context)
    IN  \A i \in 1..Len(call.events) :
            call.events[i].ev = "call" => call.events[i].context = expected

C9_Witness ==
    /\ Len(call.history) = 2
    /\ call.history[1] # call.history[2]
    /\ _normalize_context(call.context) # <<>>
    /\ Len(Calls(call)) = 2

---------------------------------------------------------------------------
(* C10: when the document context normalizes to the empty string and the  *)
(* history is non-empty, the emptiness check does not return the          *)
(* fallback: the call goes on to the model lookup and every backend call  *)
(* is given the history block alone as its context.                       *)
C10_HistoryOnlyContext ==
    (_normalize_context(call.context) = <<>> /\ call.history # <<>>) =>
        /\ call.pc # "EMPTY_FALLBACK"
        /\ call.pc \notin {"NORMALIZE", "CHECK_EMPTY"} =>
              \/ call.events # <<>> /\ call.events[1].ev = "lookup"
              \/ call.pc = "RESOLVE_MODEL"
        /\ LET block == HistoryMarker \o HistoryBlock(call.history)
           IN  \A i \in 1..Len(call.events) :
                  call.events[i].ev = "call" => call.events[i].context = block

C10_Witness ==
    /\ call.context.kind = "list"
    /\ call.context.list # <<>>
    /\ BlankContext(call.context)
    /\ call.history # <<>>
    /\ Len(Calls(call)) = 1
    /\ call.pc = "DONE"

---------------------------------------------------------------------------
(* _normalize_context as a function of any Python object. An object is    *)
(* [t, str, items, int]: t is its type, str the text of a str, items the  *)
(* elements of a list or tuple, int the value of an int.                  *)

MaxElems == 3

StrObj(s) == [t |-> "str", str |-> s, items |-> <<>>, int |-> 0]
NoneObj == [t |-> "NoneType", str |-> <<>>, items |-> <<>>, int |-> 0]
IntObj(n) == [t |-> "int", str |-> <<>>, items |-> <<>>, int |-> n]
ListObj(l) == [t |-> "list", str |-> <<>>, items |-> l, int |-> 0]
TupleObj(l) == [t |-> "tuple", str |-> <<>>, items |-> l, int |-> 0]

(* bool(v) *)
ObjTruthy(v) ==
    CASE v.t = "str" -> StrTruthy(v.str)
      [] v.t = "int" -> v.int # 0
      [] v.t \in {"list", "tuple"} -> v.items # <<>>
      [] OTHER -> FALSE

(* Of these types only str has a method strip. *)
HasStrip(v) == v.t = "str"

(* The texts of the str elements of items, in order. *)
RECURSIVE StrItems(_)
StrItems(items) ==
    IF items = <<>> THEN <<>>
    ELSE IF Head(items).t = "str"
         THEN <<Head(items).str>> \o StrItems(Tail(items))
         ELSE StrItems(Tail(items))

(* What the call _normalize_context(v) does. In the comprehension of a    *)
(* list, "if s" skips a falsy element before s.strip() is evaluated, and  *)
(* s.strip() on a truthy element without that method raises              *)
(* AttributeError, which nothing in the function catches.                 *)
NormalizeContextCall(v) ==
    IF v.t = "str"
    THEN [ok |-> TRUE, value |-> _normalize_context(StrContext(v.str)),
          exc |-> ""]
    ELSE IF v.t = "list"
    THEN IF \E i \in 1..Len(v.items) :
                ObjTruthy(v.items[i]) /\ ~HasStrip(v.items[i])
         THEN [ok |-> FALSE, value |-> <<>>, exc |-> "AttributeError"]
         ELSE [ok |-> TRUE,
               value |-> _normalize_context(ListContext(StrItems(v.items))),
               exc |-> ""]
    ELSE [ok |-> TRUE, value |-> _normalize_context(OtherContext), exc |-> ""]

(* Elements a list may hold: document texts, None, the ints 0 and 5. *)
ListElems == {StrObj(s) : s \in DocTexts} \cup {NoneObj, IntObj(0), IntObj(5)}

Objects ==
    {StrObj(s) : s \in Strs(ContextChars, MaxStrLen)}
    \cup {ListObj(l) : l \in Lists(ListElems, MaxElems)}
    \cup {TupleObj(l) : l \in Lists({StrObj(s) : s \in DocTexts}, 1)}
    \cup {NoneObj, IntObj(0), IntObj(5)}

InitNormalize ==
    /\ app = NoApp
    /\ \E v \in Objects :
          call = [entry |-> "_normalize_context", pc |-> "CALL",
                  context |-> v, ret |-> <<>>, error |-> <<>>]

NormalizeContext ==
    /\ call.pc = "CALL"
    /\ LET r == NormalizeContextCall(call.context)
       IN  call' = IF r.ok
                   THEN [call EXCEPT !.pc = "RETURNED", !.ret = <<r.value>>]
                   ELSE [call EXCEPT !.pc = "RAISED", !.error = <<r.exc>>]
    /\ UNCHANGED app

NextNormalize == NormalizeContext

SpecNormalize == InitNormalize /\ [][NextNormalize]_vars

---------------------------------------------------------------------------
(* s without its leading and trailing whitespace: the part of s from its  *)
(* first to its last non-whitespace character.                             *)
Trimmed(s) ==
    LET solid == {k \in 1..Len(s) : s[k] \notin Whitespace}
    IN  IF solid = {} THEN <<>>
        ELSE SubSeq(s, CHOOSE k \in solid : \A j \in solid : k <= j,
                       CHOOSE k \in solid : \A j \in solid : k >= j)

(* The elements of l that are not blank, each trimmed, in the order of l, *)
(* with a blank line between neighbours.                                   *)
RECURSIVE JoinedSurvivors(_)
JoinedSurvivors(l) ==
    IF l = <<>> THEN <<>>
    ELSE LET front == JoinedSurvivors(SubSeq(l, 1, Len(l) - 1))
             last == l[Len(l)]
         IN  IF BlankStr(last) THEN front
             ELSE IF front = <<>> THEN Trimmed(last)
             ELSE front \o <<"\n", "\n">> \o Trimmed(last)

AllStr(items) == \A i \in 1..Len(items) : items[i].t = "str"

(* C11: on a str the call returns the str without its leading and         *)
(* trailing whitespace; on a list of strs it returns the elements that    *)
(* are non-empty after trimming, each trimmed, in input order, joined     *)
(* with "\n\n", and the empty string when no element survives.            *)
C11_NormalizeStrAndList ==
    LET v == call.context
    IN  (call.entry = "_normalize_context" /\ call.pc # "CALL") =>
           /\ v.t = "str" =>
                 call.pc = "RETURNED" /\ call.ret = <<Trimmed(v.str)>>
           /\ (v.t = "list" /\ AllStr(v.items)) =>
                 /\ call.pc = "RETURNED"
                 /\ call.ret = <<JoinedSurvivors(StrItems(v.items))>>

C11_Witness ==
    /\ call.pc = "RETURNED"
    /\ call.context = ListObj(<<StrObj(<<" ", "b", "\n">>), StrObj(<<" ">>),
                                StrObj(<<"a">>)>>)
    /\ call.ret = << <<"b", "\n", "\n", "a">> >>

---------------------------------------------------------------------------
(* A str, or a list or tuple whose elements are all strs. *)
StrOrStrSequence(v) ==
    \/ v.t = "str"
    \/ v.t \in {"list", "tuple"} /\ AllStr(v.items)

(* C12 as stated: the call never raises, it returns a string for every    *)
(* object, and the empty string for every object that is neither a str    *)
(* nor a sequence of strs.                                                *)
C12_NeverFails ==
    (call.entry = "_normalize_context" /\ call.pc # "CALL") =>
        /\ call.pc = "RETURNED"
        /\ ~StrOrStrSequence(call.context) => call.ret = << <<>> >>

---------------------------------------------------------------------------
(* The message store of ChatRepository: the rows of the table messages in *)
(* insertion order. A row is named by its position (its rowid).           *)

MaxRows == 6

(* No answer_with_history call in progress. *)
NoCall == [pc |-> "NONE"]

MessageRow(id, chat_id, question, answer_text, model_used, created_at) ==
    [id |-> id, chat_id |-> chat_id, question |-> question,
     answer |-> answer_text, model_used |-> model_used,
     created_at |-> created_at]

(* _now(): a reading of the wall clock, last read as clock. The clock has *)
(* a finite resolution, so a reading may equal the one before it.         *)
_now(clock) == {clock, clock + 1}

(* add_message: INSERT INTO messages, id being a fresh uuid. *)
add_message(rows, chat_id, question, answer_text, model_used, now) ==
    Append(rows, MessageRow(Len(rows) + 1, chat_id, question, answer_text,
                            model_used, now))

(* FROM messages WHERE chat_id = ? *)
ChatRowIds(rows, chat_id) == {i \in 1..Len(rows) : rows[i].chat_id = chat_id}

(* ORDER BY created_at DESC LIMIT n over the rows S: the sets of rows it  *)
(* may keep (rows of equal created_at come in an order SQL leaves open).  *)
LatestSets(rows, S, n) ==
    LET k == IF n < Cardinality(S) THEN n ELSE Cardinality(S)
    IN  {T \in SUBSET S :
            /\ Cardinality(T) = k
            /\ \A a \in T, b \in S \ T :
                  rows[a].created_at >= rows[b].created_at}

(* ORDER BY created_at ASC over the rows T: the orders it may produce. *)
RECURSIVE AscOrders(_, _)
AscOrders(rows, T) ==
    IF T = {} THEN {<<>>}
    ELSE UNION {{<<m>> \o s : s \in AscOrders(rows, T \ {m})} :
                   m \in {x \in T : \A y \in T :
                             rows[x].created_at <= rows[y].created_at}}

(* get_messages(chat_id, limit): the row sequences it may return, limit   *)
(* being <<>> for None. "if limit" is false for None and for 0.           *)
get_messages(rows, chat_id, limit) ==
    LET S == ChatRowIds(rows, chat_id)
    IN  IF limit # <<>> /\ limit[1] # 0
        THEN UNION {AscOrders(rows, T) : T \in LatestSets(rows, S, limit[1])}
        ELSE AscOrders(rows, S)

(* history = [(m["question"], m["answer"]) for m in messages] *)
AskHistory(messages) ==
    [k \in 1..Len(messages) |-> <<messages[k].question, messages[k].answer>>]

(* The limit the ask handlers pass to get_messages. *)
HistoryLimit == 5

ChatIds == {"c1", "c2"}

Limits == {<<>>, <<0>>, <<1>>, <<HistoryLimit>>}

(* f"Q{i}", f"A{i}" of the test of the store. *)
Digits == <<"1", "2", "3", "4", "5", "6", "7", "8", "9">>
NumberedText(letter, i) == <<letter, Digits[i]>>

InitRepo ==
    /\ call = NoCall
    /\ app = [phase |-> "REPO", rows |-> <<>>, clock |-> 0, got |-> <<>>]

RepoAddMessage ==
    /\ app.phase = "REPO"
    /\ Len(app.rows) < MaxRows
    /\ \E chat_id \in ChatIds, now \in _now(app.clock) :
          LET i == Len(app.rows) + 1
          IN  app' = [app EXCEPT
                        !.rows = add_message(@, chat_id, NumberedText("Q", i),
                                             NumberedText("A", i),
                                             QA_DEFAULT_MODEL, now),
                        !.clock = now,
                        !.got = <<>>]
    /\ UNCHANGED call

RepoGetMessages ==
    /\ app.phase = "REPO"
    /\ app.got = <<>>
    /\ \E chat_id \in ChatIds, limit \in Limits :
          \E ids \in get_messages(app.rows, chat_id, limit) :
             app' = [app EXCEPT
                       !.got = <<[chat_id |-> chat_id, limit |-> limit,
                                  messages |-> [k \in 1..Len(ids) |->
                                                   app.rows[ids[k]]]]>>]
    /\ UNCHANGED call

NextRepo ==
    \/ RepoAddMessage
    \/ RepoGetMessages

SpecRepo == InitRepo /\ [][NextRepo]_vars

---------------------------------------------------------------------------
(* The rows of a chat in the order they were added, and the last n of a   *)
(* sequence.                                                               *)
ChatRows(rows, chat_id) == SelectSeq(rows, LAMBDA r : r.chat_id = chat_id)
LastN(s, n) == SubSeq(s, Len(s) - n + 1, Len(s))

(* C20 as stated: get_messages(chat_id, limit=N) returns the min(N,       *)
(* count) most recently added messages of the chat, oldest first; so the  *)
(* history built from get_messages(chat_id, limit=5) has at most 5 turns, *)
(* which are the latest turns of the chat, oldest first.                   *)
C20_LatestMessages ==
    (app.phase = "REPO" /\ app.got # <<>> /\ app.got[1].limit # <<>>) =>
        LET g == app.got[1]
            added == ChatRows(app.rows, g.chat_id)
            N == g.limit[1]
            n == IF N < Len(added) THEN N ELSE Len(added)
        IN  /\ g.messages = LastN(added, n)
            /\ N = HistoryLimit =>
                  /\ Len(AskHistory(g.messages)) <= 5
                  /\ AskHistory(g.messages) = AskHistory(LastN(added, n))

---------------------------------------------------------------------------
(* The server: one event loop on which the ask handlers run as            *)
(* coroutines. A coroutine gives up the loop only at an await; each       *)
(* action below is one database operation awaited by a handler together   *)
(* with the code the handler runs from there to its next await.           *)
(* answer_with_history is called synchronously, so while call is in       *)
(* progress the loop runs nothing else.                                   *)

(* The requests the model follows: two, so that one can arrive or be     *)
(* under way while the other is being answered.                           *)
TaskIds == {1, 2}

(* The module whose ask handler serves POST /chats/{chat_id}/ask: the     *)
(* package app.api exports one of the two.                                *)
Routers == {"app.api.ask", "app.api.router"}

Document(id, chat_id, extracted_text, enabled) ==
    [id |-> id, chat_id |-> chat_id, extracted_text |-> extracted_text,
     enabled |-> enabled]

(* An enabled document with text and a disabled one of blank text. *)
DocumentSets ==
    {<<>>,
     <<Document("d1", "c1", <<"a">>, TRUE),
       Document("d2", "c1", <<" ">>, FALSE)>>}

(* get_documents(chat_id, enabled_only, document_ids): document_ids is    *)
(* <<>> for None and <<ids>> for a list; "if document_ids" is false for   *)
(* None and for the empty list.                                           *)
get_documents(docs, chat_id, enabled_only, document_ids) ==
    IF document_ids # <<>> /\ document_ids[1] # <<>>
    THEN SelectSeq(docs, LAMBDA d :
             d.chat_id = chat_id
             /\ \E k \in 1..Len(document_ids[1]) : document_ids[1][k] = d.id)
    ELSE IF enabled_only
    THEN SelectSeq(docs, LAMBDA d : d.chat_id = chat_id /\ d.enabled)
    ELSE SelectSeq(docs, LAMBDA d : d.chat_id = chat_id)

(* doc_texts = [d["extracted_text"] for d in docs if d.get("extracted_text")] *)
RECURSIVE DocTextsOf(_)
DocTextsOf(docs) ==
    IF docs = <<>> THEN <<>>
    ELSE IF StrTruthy(Head(docs).extracted_text)
         THEN <<Head(docs).extracted_text>> \o DocTextsOf(Tail(docs))
         ELSE DocTextsOf(Tail(docs))

(* _validate_model_id: TRUE when model_id is the id of a catalog entry. *)
_validate_model_id(model_id) ==
    model_id \in {QA_MODELS[i].id : i \in 1..Len(QA_MODELS)}

(* s.split(): the maximal runs of non-whitespace characters of s. *)
RECURSIVE split(_)
split(s) ==
    LET body == lstrip(s)
        blanks == {k \in 1..Len(body) : body[k] \in Whitespace}
        stop == IF blanks = {} THEN Len(body) + 1
                ELSE CHOOSE k \in blanks : \A j \in blanks : k <= j
    IN  IF body = <<>> THEN <<>>
        ELSE <<SubSeq(body, 1, stop - 1)>>
             \o split(SubSeq(body, stop, Len(body)))

(* Variant: the title is not cut to 50 characters. *)
_derive_title_Uncut(question) ==
    LET words == split(strip(question))
        first == SubSeq(words, 1, IF Len(words) < 5 THEN Len(words) ELSE 5)
    IN  join(<<" ">>, first)

(* _derive_title: the first 5 words joined by blanks, cut to 50 chars. *)
_derive_title(question) ==
    LET words == split(strip(question))
        first == SubSeq(words, 1, IF Len(words) < 5 THEN Len(words) ELSE 5)
        title == join(<<" ">>, first)
    IN  IF Len(title) > 50 THEN SubSeq(title, 1, 50) ELSE title

(* Variant: the catalog entries themselves, model identifier included. *)
list_models_WholeEntries(catalog) ==
    [ret |-> catalog, catalog |-> catalog]

(* Variant: the key "model" removed from the catalog's own entries. *)
list_models_StripsCatalog(catalog) ==
    LET public == [i \in 1..Len(catalog) |->
                      [id |-> catalog[i].id, name |-> catalog[i].name]]
    IN  [ret |-> public, catalog |-> public]

(* list_models() over the module-level list QA_MODELS, whose content is   *)
(* catalog: what it returns and the content it leaves.                    *)
list_models(catalog) ==
    [ret |-> [i \in 1..Len(catalog) |->
                 [id |-> catalog[i].id, name |-> catalog[i].name]],
     catalog |-> catalog]

(* lifespan: token = os.environ.get("HF_TOKEN", "").strip(); if not token *)
LifespanTokenMissing(token) ==
    ~StrTruthy(strip(IF token = <<>> THEN <<>> ELSE token[1]))

AskRequest(chat_id, question, document_ids, model_id) ==
    [chat_id |-> chat_id, question |-> question,
     document_ids |-> document_ids, model_id |-> model_id]

(* The requests the n-th task may carry: to a missing chat (with the      *)
(* default model and with an unknown one), to chat c1 with each model id, *)
(* and to chat c1 with a list of document ids.                            *)
Requests(n) ==
    LET q == NumberedText("Q", n)
    IN  {AskRequest("zz", q, <<>>, m) : m \in {<<>>, <<"nope">>}}
        \cup {AskRequest("c1", q, <<>>, m) : m \in ModelIds}
        \cup {AskRequest("c1", q, << <<"d2">> >>, <<>>)}

(* A request being handled. status is the HTTP status once it is over. *)
Task(request) ==
    [pc |-> "GET_CHAT", request |-> request, chat |-> <<>>, model_id |-> "",
     docs |-> <<>>, messages |-> <<>>, answer |-> <<>>, now |-> 0,
     status |-> 0, response |-> <<>>]

(* raise HTTPException(status_code=...), or an exception the handler does *)
(* not catch (500).                                                        *)
Abort(task, status) ==
    [task EXCEPT !.pc = IF status = 500 THEN "FAILED" ELSE "REJECTED",
                 !.status = status]

(* Variant: the response always names the default model. *)
Respond_DefaultModel(task) ==
    [task EXCEPT !.pc = "DONE", !.status = 200,
                 !.response = <<[answer |-> task.answer[1],
                                 model_used |-> QA_DEFAULT_MODEL]>>]

(* return AskResponse(answer=answer_text, model_used=model_id, ...) *)
Respond(task) ==
    [task EXCEPT !.pc = "DONE", !.status = 200,
                 !.response = <<[answer |-> task.answer[1],
                                 model_used |-> task.model_id]>>]

---------------------------------------------------------------------------
(* The process: a server started by uvicorn (lifespan, then requests), or *)
(* a script that calls answer directly, as scripts/validate_qa.py does.   *)
(* token is the value of HF_TOKEN in the environment of the process.      *)

Process(phase, token, mounted, docs) ==
    [phase |-> phase, token |-> token, mounted |-> mounted,
     catalog |-> QA_MODELS, chats |-> {"c1"}, title |-> <<>>, docs |-> docs,
     rows |-> <<>>, clock |-> 0, tasks |-> <<>>, running |-> 0,
     listed |-> <<>>]

InitServer ==
    \E token \in Tokens :
        \/ /\ call = NoCall
           /\ \E mounted \in Routers, docs \in DocumentSets :
                 app = Process("STARTING", token, mounted, docs)
        \/ /\ \E q \in Questions, cx \in {StrContext(<<>>), StrContext(<<"a">>)} :
                 call = answer(q, cx)
           /\ app = Process("SCRIPT", token, "", <<>>)

(* lifespan: the startup check of the credential. *)
Lifespan ==
    /\ app.phase = "STARTING"
    /\ app' = [app EXCEPT !.phase = IF LifespanTokenMissing(app.token)
                                    THEN "STARTUP_FAILED" ELSE "SERVING"]
    /\ UNCHANGED call

(* A request arrives and its handler is scheduled. *)
Receive ==
    /\ app.phase = "SERVING"
    /\ call = NoCall
    /\ Len(app.tasks) + 1 \in TaskIds
    /\ \E r \in Requests(Len(app.tasks) + 1) :
          app' = [app EXCEPT !.tasks = Append(@, Task(r))]
    /\ UNCHANGED call

(* Variant: the model id is validated before the chat is looked up. *)
AskGetChat_ValidateFirst(i) ==
    /\ app.phase = "SERVING"
    /\ call = NoCall
    /\ app.tasks[i].pc = "GET_CHAT"
    /\ LET task == app.tasks[i]
           model_id == DefaultedModelId(task.request.model_id)
       IN  app' = [app EXCEPT !.tasks[i] =
                IF ~_validate_model_id(model_id)
                THEN Abort([task EXCEPT !.model_id = model_id], 422)
                ELSE IF task.request.chat_id \notin app.chats
                THEN Abort(task, 404)
                ELSE [task EXCEPT !.pc = "GET_DOCUMENTS",
                                  !.chat = <<[title |-> app.title]>>,
                                  !.model_id = model_id]]
    /\ UNCHANGED call

(* ensure_init, get_chat; then the 404 check, the model id and its        *)
(* validation.                                                             *)
AskGetChat(i) ==
    /\ app.phase = "SERVING"
    /\ call = NoCall
    /\ app.tasks[i].pc = "GET_CHAT"
    /\ LET task == app.tasks[i]
           model_id == DefaultedModelId(task.request.model_id)
       IN  app' = [app EXCEPT !.tasks[i] =
                IF task.request.chat_id \notin app.chats
                THEN Abort(task, 404)
                ELSE IF ~_validate_model_id(model_id)
                THEN Abort([task EXCEPT !.model_id = model_id], 422)
                ELSE [task EXCEPT !.pc = "GET_DOCUMENTS",
                                  !.chat = <<[title |-> app.title]>>,
                                  !.model_id = model_id]]
    /\ UNCHANGED call

(* get_documents; then the 400 check. *)
AskGetDocuments(i) ==
    /\ app.phase = "SERVING"
    /\ call = NoCall
    /\ app.tasks[i].pc = "GET_DOCUMENTS"
    /\ LET task == app.tasks[i]
           docs == get_documents(app.docs, task.request.chat_id,
                                 task.request.document_ids = <<>>,
                                 task.request.document_ids)
       IN  app' = [app EXCEPT !.tasks[i] =
                IF docs = <<>> THEN Abort(task, 400)
                ELSE [task EXCEPT !.pc = "GET_MESSAGES", !.docs = docs]]
    /\ UNCHANGED call

(* get_messages(chat_id, limit=5); then history, doc_texts and the call   *)
(* of answer_with_history, which takes the loop.                           *)
AskGetMessages(i) ==
    /\ app.phase = "SERVING"
    /\ call = NoCall
    /\ app.tasks[i].pc = "GET_MESSAGES"
    /\ LET task == app.tasks[i]
       IN  \E ids \in get_messages(app.rows, task.request.chat_id,
                                   <<HistoryLimit>>) :
              LET messages == [k \in 1..Len(ids) |-> app.rows[ids[k]]]
              IN  /\ app' = [app EXCEPT
                               !.tasks[i] = [task EXCEPT !.pc = "ANSWERING",
                                                         !.messages = messages],
                               !.running = i]
                  /\ call' = NewCall(task.request.question,
                                     ListContext(DocTextsOf(task.docs)),
                                     AskHistory(messages), <<task.model_id>>)

(* client = _get_client() in a process whose HF_TOKEN is app.token. *)
GetClientEnv ==
    /\ app.phase \in {"SERVING", "SCRIPT"}
    /\ call.pc = "GET_CLIENT"
    /\ call' = GetClientStep(call, app.token)
    /\ UNCHANGED app

(* What the backend does at one attempt of a call made by the server:    *)
(* candidates, None, HTTP 503 or HTTP 500.                                *)
ServerOutcomes(attempt) ==
    {Returns(PyList(<<Answered>>)), Returns(PyNone),
     Raises(HfHubHTTPError(503, attempt)),
     Raises(HfHubHTTPError(500, attempt))}

InvokeBackend ==
    /\ app.phase \in {"SERVING", "SCRIPT"}
    /\ call.pc = "INVOKE"
    /\ \E o \in ServerOutcomes(call.attempt) : call' = InvokeStep(call, o)
    /\ UNCHANGED app

(* answer_with_history is over. If it raised, the exception leaves the    *)
(* handler. If it returned, add_message is called: the handler of         *)
(* app.api.ask passes the keyword inference_time, which add_message does  *)
(* not take (TypeError); the handler of app.api.router calls it as        *)
(* declared, and add_message reads _now() before its first await.         *)
AskAnswered(i) ==
    /\ app.phase = "SERVING"
    /\ app.running = i
    /\ Terminal(call)
    /\ LET task == app.tasks[i]
       IN  IF call.error # <<>>
           THEN app' = [app EXCEPT !.tasks[i] = Abort(task, 500),
                                   !.running = 0]
           ELSE IF app.mounted = "app.api.ask"
           THEN app' = [app EXCEPT
                          !.tasks[i] = Abort([task EXCEPT !.answer = call.ret],
                                             500),
                          !.running = 0]
           ELSE \E now \in _now(app.clock) :
                   app' = [app EXCEPT
                             !.tasks[i] = [task EXCEPT !.pc = "ADD_MESSAGE",
                                                       !.answer = call.ret,
                                                       !.now = now],
                             !.clock = now,
                             !.running = 0]
    /\ call' = NoCall

(* The INSERT of add_message; then the test for the first message of an   *)
(* untitled chat, the call of update_chat_title or the response.          *)
AskAddMessage(i) ==
    /\ app.phase = "SERVING"
    /\ call = NoCall
    /\ app.tasks[i].pc = "ADD_MESSAGE"
    /\ LET task == app.tasks[i]
       IN  app' = [app EXCEPT
                     !.rows = add_message(@, task.request.chat_id,
                                          task.request.question,
                                          task.answer[1], task.model_id,
                                          task.now),
                     !.tasks[i] =
                        IF task.messages = <<>> /\ task.chat[1].title = <<>>
                        THEN [task EXCEPT !.pc = "UPDATE_TITLE"]
                        ELSE Respond(task)]
    /\ UNCHANGED call

(* The UPDATE of update_chat_title; then the response. *)
AskUpdateTitle(i) ==
    /\ app.phase = "SERVING"
    /\ call = NoCall
    /\ app.tasks[i].pc = "UPDATE_TITLE"
    /\ app' = [app EXCEPT
                 !.title = <<_derive_title(app.tasks[i].request.question)>>,
                 !.tasks[i] = Respond(app.tasks[i])]
    /\ UNCHANGED call

(* GET /qa/models: return list_models(). *)
GetQaModels ==
    /\ app.phase = "SERVING"
    /\ call = NoCall
    /\ app.listed = <<>>
    /\ LET r == list_models(app.catalog)
       IN  app' = [app EXCEPT !.listed = <<r.ret>>, !.catalog = r.catalog]
    /\ UNCHANGED call

NextServer ==
    \/ Lifespan
    \/ Receive
    \/ \E i \in 1..Len(app.tasks) : AskGetChat(i)
    \/ \E i \in 1..Len(app.tasks) : AskGetDocuments(i)
    \/ \E i \in 1..Len(app.tasks) : AskGetMessages(i)
    \/ Normalize
    \/ CheckEmpty
    \/ ResolveModel
    \/ GetClientEnv
    \/ InvokeBackend
    \/ RetryWait
    \/ ExtractAnswer
    \/ \E i \in 1..Len(app.tasks) : AskAnswered(i)
    \/ \E i \in 1..Len(app.tasks) : AskAddMessage(i)
    \/ \E i \in 1..Len(app.tasks) : AskUpdateTitle(i)
    \/ GetQaModels

SpecServer == InitServer /\ [][NextServer]_vars

---------------------------------------------------------------------------
(* C13: the response of an ask names the requested model id when the      *)
(* request gives one (a non-empty string) and the default id when it      *)
(* gives none, and every backend call made for the request is passed the  *)
(* model identifier of the catalog entry of that id.                      *)
C13_ModelUsed ==
    app.phase = "SERVING" =>
        \A i \in 1..Len(app.tasks) :
            LET task == app.tasks[i]
                m == task.request.model_id
                expected == IF m # <<>> /\ m[1] # "" THEN m[1]
                            ELSE QA_DEFAULT_MODEL
            IN  /\ task.response # <<>> =>
                      task.response[1].model_used = expected
                /\ app.running = i =>
                      \A k \in 1..Len(call.events) :
                          call.events[k].ev = "call" =>
                              \E e \in 1..Len(QA_MODELS) :
                                  /\ QA_MODELS[e].id = expected
                                  /\ call.events[k].model = QA_MODELS[e].model

C13_Witness ==
    /\ app.phase = "SERVING"
    /\ \E i \in 1..Len(app.tasks) :
          /\ app.tasks[i].request.model_id = <<"tinybert">>
          /\ app.tasks[i].pc = "DONE"
          /\ app.tasks[i].response =
                <<[answer |-> <<"y">>, model_used |-> "tinybert"]>>

---------------------------------------------------------------------------
(* C14: in every state the catalog has its configured content, its ids    *)
(* are pairwise different, exactly one entry carries the default id, and  *)
(* looking the default id up finds that entry.                             *)
C14_CatalogWellFormed ==
    app.phase \in {"STARTING", "SERVING", "STARTUP_FAILED", "SCRIPT"} =>
        LET catalog == app.catalog
            defaults == {i \in 1..Len(catalog) :
                            catalog[i].id = QA_DEFAULT_MODEL}
        IN  /\ catalog = QA_MODELS
            /\ \A i, j \in 1..Len(catalog) :
                  catalog[i].id = catalog[j].id => i = j
            /\ Cardinality(defaults) = 1
            /\ \A i \in defaults : LookupModel(QA_DEFAULT_MODEL) = <<catalog[i]>>

C14_Witness ==
    /\ app.phase = "SERVING"
    /\ app.listed # <<>>
    /\ Len(app.rows) = 2
    /\ \A i \in 1..Len(app.tasks) : app.tasks[i].pc = "DONE"

---------------------------------------------------------------------------
(* C15: what list_models returns has one entry per catalog entry, in the  *)
(* order of the catalog, each with the fields id and name of that entry   *)
(* and no other field, and no value in it is a backend model identifier.  *)
C15_ListModelsPublicFields ==
    (app.phase = "SERVING" /\ app.listed # <<>>) =>
        LET models == app.listed[1]
        IN  /\ Len(models) = Len(QA_MODELS)
            /\ \A i \in 1..Len(models) :
                  /\ DOMAIN models[i] = {"id", "name"}
                  /\ models[i].id = QA_MODELS[i].id
                  /\ models[i].name = QA_MODELS[i].name
                  /\ \A f \in DOMAIN models[i], e \in 1..Len(QA_MODELS) :
                        models[i][f] # QA_MODELS[e].model

C15_Witness ==
    /\ app.phase = "SERVING"
    /\ app.listed # <<>>
    /\ Len(app.listed[1]) = 6
    /\ app.listed[1][2].id = "distilbert"

---------------------------------------------------------------------------
(* HF_TOKEN unset, empty or made of whitespace only. *)
BlankToken(token) == token = <<>> \/ BlankStr(token[1])

ConfigurationError == ValueError("HF_TOKEN environment variable is required")

(* C16: startup has failed exactly when HF_TOKEN is blank; with a blank   *)
(* HF_TOKEN a call that comes to construct its client ends there with    *)
(* the configuration error; every backend call follows the construction   *)
(* of a client with a non-blank key; and a server whose HF_TOKEN is blank *)
(* handles no request.                                                     *)
C16_CredentialRequired ==
    app.phase \in {"SERVING", "STARTUP_FAILED", "SCRIPT"} =>
        /\ app.phase # "SCRIPT" =>
              (app.phase = "STARTUP_FAILED" <=> BlankToken(app.token))
        /\ BlankToken(app.token) =>
              /\ app.tasks = <<>>
              /\ call.pc \notin {"INVOKE", "RETRY_WAIT", "EXTRACT_ANSWER", "DONE"}
              /\ (call.pc = "FATAL_ERROR" /\ call.model_config # <<>>) =>
                    call.error = <<ConfigurationError>>
        /\ call.pc # "NONE" =>
              \A k \in 1..Len(call.events) :
                  call.events[k].ev = "call" =>
                      \E j \in 1..(k - 1) :
                          /\ call.events[j].ev = "client"
                          /\ ~BlankStr(call.events[j].api_key)

C16_Witness ==
    /\ app.phase = "SCRIPT"
    /\ app.token = << <<" ">> >>
    /\ call.pc = "FATAL_ERROR"
    /\ call.error = <<ConfigurationError>>

---------------------------------------------------------------------------
(* A step of the handler of task j. *)
TaskStep(j) ==
    \/ AskGetChat(j)
    \/ AskGetDocuments(j)
    \/ AskGetMessages(j)
    \/ AskAddMessage(j)
    \/ AskUpdateTitle(j)

TaskOver(task) == task.pc \in {"DONE", "REJECTED", "FAILED"}

(* C17 as stated: while a call is in its backoff wait, a new request can  *)
(* be taken up and every other request under way can take its next step.  *)
C17_WaitDoesNotBlock ==
    (app.phase = "SERVING" /\ call.pc = "RETRY_WAIT") =>
        /\ Len(app.tasks) + 1 \in TaskIds => ENABLED Receive
        /\ \A j \in 1..Len(app.tasks) :
              (j # app.running /\ ~TaskOver(app.tasks[j])) => ENABLED TaskStep(j)

---------------------------------------------------------------------------
(* The stored messages that carry the question of a request. *)
RowsOf(task) == SelectSeq(app.rows, LAMBDA r : r.question = task.request.question)

(* C19 as stated: a request has at most one message; it has one only      *)
(* after its answer_with_history call has returned, holding its question, *)
(* that answer and the model id; and once the request is over it has one  *)
(* if the call returned and none if the request was rejected or the call  *)
(* raised.                                                                 *)
C19_OneMessagePerAnswer ==
    app.phase = "SERVING" =>
        \A i \in 1..Len(app.tasks) :
            LET task == app.tasks[i]
                mine == RowsOf(task)
            IN  /\ Len(mine) <= 1
                /\ Len(mine) = 1 =>
                      /\ task.answer # <<>>
                      /\ mine[1].answer = task.answer[1]
                      /\ mine[1].model_used = task.model_id
                /\ TaskOver(task) =>
                      Len(mine) = (IF task.answer # <<>> THEN 1 ELSE 0)

---------------------------------------------------------------------------
(* answer_with_history called from several threads of one process: the    *)
(* calls interleave phase by phase. Every name the function assigns is a  *)
(* local of the call; the calls share the catalog and HF_TOKEN, which     *)
(* they only read.                                                         *)

MaxThreads == 2

(* The phase at c.pc of a call: token is the HF_TOKEN it reads if it      *)
(* constructs its client, o what the backend does if it is called.        *)
AnswerStep(c, token, o) ==
    CASE c.pc = "NORMALIZE" -> NormalizeStep(c)
      [] c.pc = "CHECK_EMPTY" -> CheckEmptyStep(c)
      [] c.pc = "RESOLVE_MODEL" -> ResolveModelStep(c)
      [] c.pc = "GET_CLIENT" -> GetClientStep(c, token)
      [] c.pc = "INVOKE" -> InvokeStep(c, o)
      [] c.pc = "RETRY_WAIT" -> RetryWaitStep(c)
      [] c.pc = "EXTRACT_ANSWER" -> ExtractAnswerStep(c)
      [] OTHER -> c

(* Variant: attempt kept in one module-level variable, which a step of    *)
(* any call writes for all calls in progress.                              *)
StepThread_SharedAttempt(calls, i, token, o) ==
    LET stepped == AnswerStep(calls[i], token, o)
    IN  [j \in DOMAIN calls |->
            IF j = i THEN stepped
            ELSE IF calls[j] = NoCall \/ Terminal(calls[j]) THEN calls[j]
            ELSE [calls[j] EXCEPT !.attempt = stepped.attempt]]

(* A step of the call of thread i: it changes that call and no other. *)
StepThread(calls, i, token, o) ==
    [calls EXCEPT ![i] = AnswerStep(calls[i], token, o)]

ThreadInputs ==
    {NewCall(q, cx, <<>>, m) :
        q \in Questions, cx \in {StrContext(<<>>), StrContext(<<"a">>)},
        m \in {<<>>, <<"nope">>}}

InitThreads ==
    /\ call = NoCall
    /\ \E token \in Tokens :
          app = [phase |-> "THREADS", token |-> token,
                 started |-> [i \in 1..MaxThreads |-> NoCall],
                 calls |-> [i \in 1..MaxThreads |-> NoCall]]

(* Thread i calls answer_with_history. *)
ThreadStart(i) ==
    /\ app.phase = "THREADS"
    /\ app.calls[i] = NoCall
    /\ \E c \in ThreadInputs :
          app' = [app EXCEPT !.started[i] = c, !.calls[i] = c]
    /\ UNCHANGED call

(* The call of thread i runs its next phase. *)
ThreadStep(i) ==
    /\ app.phase = "THREADS"
    /\ app.calls[i] # NoCall
    /\ ~Terminal(app.calls[i])
    /\ \E o \in ServerOutcomes(app.calls[i].attempt) :
          app' = [app EXCEPT !.calls = StepThread(@, i, app.token, o)]
    /\ UNCHANGED call

NextThreads ==
    \/ \E i \in 1..MaxThreads : ThreadStart(i)
    \/ \E i \in 1..MaxThreads : ThreadStep(i)

SpecThreads == InitThreads /\ [][NextThreads]_vars

---------------------------------------------------------------------------
(* The call c run alone for n phases (or to its end), the backend doing   *)
(* outcomes in turn; it stops at a backend call for which none is left.   *)
RECURSIVE RunAlone(_, _, _, _)
RunAlone(c, token, outcomes, n) ==
    IF n = 0 \/ Terminal(c) THEN c
    ELSE IF c.pc = "INVOKE"
    THEN IF outcomes = <<>> THEN c
         ELSE RunAlone(InvokeStep(c, Head(outcomes)), token,
                       Tail(outcomes), n - 1)
    ELSE RunAlone(AnswerStep(c, token, Returns(PyNone)), token, outcomes,
                  n - 1)

(* The phases of the longest call: four before the loop, MAX_RETRIES      *)
(* backend calls with a wait after each but the last, the extraction.     *)
LongestRun == 4 + (2 * MAX_RETRIES - 1) + 1

---------------------------------------------------------------------------
(* The documents a request selects, among docs: the enabled documents of  *)
(* its chat when it carries no document_ids, the documents of its chat    *)
(* whose id it lists when it carries a non-empty list.                    *)
SelectedDocs(docs, request) ==
    SelectSeq(docs, LAMBDA d :
        /\ d.chat_id = request.chat_id
        /\ IF request.document_ids = <<>> THEN d.enabled
           ELSE \E k \in 1..Len(request.document_ids[1]) :
                    request.document_ids[1][k] = d.id)

(* The request of task was rejected with a 4xx status. *)
Rejected(task) == task.pc = "REJECTED"

---------------------------------------------------------------------------
(* C22 as stated: a call about to wait has just logged the retry with     *)
(* the number of the failed attempt and the duration of that wait, every  *)
(* wait made directly follows that log entry, and a call ended by a       *)
(* failure of the backend has logged the failure as its last act.         *)
C22_RetriesAndFailuresLogged ==
    LET events == call.events
        n == Len(events)
        RetryLog(e, seconds) ==
            /\ e.ev = "log"
            /\ e.msg = "inference_retry"
            /\ e.wait = seconds
            /\ e.attempt \in 1..(MAX_RETRIES - 1)
    IN  /\ call.pc = "RETRY_WAIT" =>
              /\ n > 0
              /\ RetryLog(events[n], call.wait)
              /\ events[n].attempt = call.attempt + 1
        /\ \A k \in 1..n :
              events[k].ev = "sleep" =>
                 k > 1 /\ RetryLog(events[k - 1], events[k].seconds)
        /\ (call.pc = "FATAL_ERROR" /\ call.error[1].at >= 0) =>
              /\ n > 0
              /\ events[n].ev = "log"
              /\ events[n].level = "error"
              /\ events[n].msg = "inference_failed"

---------------------------------------------------------------------------
(* The sum of the seconds of a sequence of sleeps. *)
RECURSIVE TotalWait(_)
TotalWait(sleeps) ==
    IF sleeps = <<>> THEN 0
    ELSE Head(sleeps).seconds + TotalWait(Tail(sleeps))

(* C23: the k-th wait of a call (k = 0, 1) lasts RETRY_BACKOFF_BASE ** k  *)
(* seconds, 1 then 2; the waits strictly increase; a wait comes directly  *)
(* after the backend call of attempt k, which failed with 503 or 504,     *)
(* (its log entry between them) and directly before the backend call of   *)
(* attempt k + 1; and the waits of a call sum to at most 3 seconds.       *)
C23_BackoffSchedule ==
    LET events == call.events
        n == Len(events)
        sleeps == Sleeps(call)
    IN  /\ RETRY_BACKOFF_BASE = 2
        /\ \A k \in 1..Len(sleeps) :
              /\ sleeps[k].seconds = RETRY_BACKOFF_BASE ^ (k - 1)
              /\ k = 1 => sleeps[k].seconds = 1
              /\ k = 2 => sleeps[k].seconds = 2
              /\ k > 1 => sleeps[k - 1].seconds < sleeps[k].seconds
              /\ Transient(call.outcomes[k])
        /\ \A i \in 1..n :
              events[i].ev = "sleep" =>
                 /\ i > 2
                 /\ events[i - 2].ev = "call"
                 /\ events[i - 1].ev = "log"
                 /\ IF i = n THEN call.pc = "INVOKE"
                    ELSE events[i + 1].ev = "call"
        /\ Len(sleeps) <= Len(call.outcomes)
        /\ call.pc = "RETRY_WAIT" =>
              /\ Transient(call.outcomes[Len(call.outcomes)])
              /\ call.wait = RETRY_BACKOFF_BASE ^ call.attempt
        /\ TotalWait(sleeps) <= 3

C23_Witness ==
    /\ Sleeps(call) = <<SleepEvent(1), SleepEvent(2)>>
    /\ Len(call.outcomes) = 3
    /\ call.outcomes[1].exc.status = 504
    /\ call.outcomes[2].exc.status = 503
    /\ call.outcomes[3].exc.status = 500
    /\ call.pc = "FATAL_ERROR"

---------------------------------------------------------------------------
(* A call that keeps running: the interpreter always executes the next    *)
(* phase of the call, and a backend call that was made returns or raises. *)
SpecTerminates == Spec /\ WF_vars(Next)

(* C24: every call ends, with the fallback returned, an answer returned   *)
(* or an error raised; and a call is at its answer extraction, or past    *)
(* it, only when its last backend call succeeded.                          *)
C24_Terminates ==
    /\ <>(\/ call.pc = "EMPTY_FALLBACK" /\ call.ret = <<EMPTY_CONTEXT_FALLBACK>>
          \/ call.pc = "DONE" /\ call.ret # <<>> /\ call.error = <<>>
          \/ call.pc = "FATAL_ERROR" /\ call.error # <<>> /\ call.ret = <<>>)
    /\ [](call.pc \in {"EXTRACT_ANSWER", "DONE"} =>
             /\ call.has_result
             /\ call.outcomes # <<>>
             /\ call.outcomes[Len(call.outcomes)].ok)

C24_Witness ==
    /\ call.pc = "DONE"
    /\ Len(call.outcomes) = 2
    /\ Transient(call.outcomes[1])
    /\ call.outcomes[2] = Returns(PyNone)
    /\ call.ret = <<EMPTY_CONTEXT_FALLBACK>>

---------------------------------------------------------------------------
(* C25: every backend call of a call is passed the question of the call,  *)
(* the combined context (the normalized context with the history folded   *)
(* in), the model identifier of the catalog entry of the resolved id, and *)
(* max_seq_len = 384, doc_stride = 128, handle_impossible_answer = true;  *)
(* so all backend calls of one call carry the same arguments.             *)
C25_SameArguments ==
    LET calls == Calls(call)
        mid == DefaultedModelId(call.model_id)
    IN  \A k \in 1..Len(calls) :
            /\ calls[k] = calls[1]
            /\ calls[k].question = call.question
            /\ calls[k].context =
                  FoldHistory(_normalize_context(call.context), call.history)
            /\ \E e \in 1..Len(QA_MODELS) :
                  /\ QA_MODELS[e].id = mid
                  /\ calls[k].model = QA_MODELS[e].model
            /\ calls[k].max_seq_len = 384
            /\ calls[k].doc_stride = 128
            /\ calls[k].handle_impossible_answer = TRUE

C25_Witness ==
    /\ Len(Calls(call)) = 3
    /\ call.model_id = <<"tinybert">>
    /\ call.history # <<>>
    /\ call.context.kind = "list"
    /\ Len(call.context.list) = 2
    /\ call.pc = "DONE"

---------------------------------------------------------------------------
(* l with x inserted after its first p elements; l without its p-th. *)
InsertAt(l, p, x) == SubSeq(l, 1, p) \o <<x>> \o SubSeq(l, p + 1, Len(l))
RemoveAt(l, p) == SubSeq(l, 1, p - 1) \o SubSeq(l, p + 1, Len(l))

(* The empty and the whitespace-only strs among the list elements. *)
BlankElems == {e \in ListElems : e.t = "str" /\ BlankStr(e.str)}

(* C30: normalizing what a call on a str or a list returned returns it    *)
(* unchanged; and a call on a list does the same (returns the same        *)
(* string, or raises the same error) as a call on that list with a blank  *)
(* str inserted at any position or with any one blank str element         *)
(* removed.                                                                *)
C30_IdempotentBlankInsensitive ==
    LET v == call.context
    IN  (call.entry = "_normalize_context" /\ call.pc # "CALL"
           /\ v.t \in {"str", "list"}) =>
           /\ call.pc = "RETURNED" =>
                 LET again == NormalizeContextCall(StrObj(call.ret[1]))
                 IN  again.ok /\ again.value = call.ret[1]
           /\ v.t = "list" =>
                 LET same(w) ==
                        LET r == NormalizeContextCall(ListObj(w))
                        IN  IF r.ok
                            THEN call.pc = "RETURNED" /\ call.ret = <<r.value>>
                            ELSE call.pc = "RAISED" /\ call.error = <<r.exc>>
                 IN  /\ \A p \in 0..Len(v.items), b \in BlankElems :
                           same(InsertAt(v.items, p, b))
                     /\ \A p \in 1..Len(v.items) :
                           v.items[p] \in BlankElems =>
                              same(RemoveAt(v.items, p))

C30_Witness ==
    /\ call.pc = "RETURNED"
    /\ call.context = ListObj(<<StrObj(<<" ">>), StrObj(<<" ", "b", "\n">>),
                                StrObj(<<>>)>>)
    /\ call.ret = << <<"b">> >>

---------------------------------------------------------------------------
(* The server with the documents of two chats, ask requests that select   *)
(* documents in every way, and the endpoint that enables and disables a   *)
(* document (PATCH /chats/{chat_id}/documents/{document_id}), whose       *)
(* handler runs between the awaits of the ask handlers.                    *)

(* Two documents of chat c1, one of them disabled, and one of chat c2;   *)
(* their texts are letters that occur in no question, answer or marker.  *)
TwoChatDocuments ==
    <<Document("d1", "c1", <<"a">>, TRUE),
      Document("d2", "c1", <<"b">>, FALSE),
      Document("d3", "c2", <<"z">>, TRUE)>>

(* UPDATE documents SET enabled = ? WHERE chat_id = ? AND id = ? *)
set_document_enabled(docs, chat_id, document_id, enabled) ==
    [k \in 1..Len(docs) |->
        IF docs[k].chat_id = chat_id /\ docs[k].id = document_id
        THEN [docs[k] EXCEPT !.enabled = enabled]
        ELSE docs[k]]

(* Requests to chat c1: without document_ids, with the empty list, with   *)
(* one id, and with the id of a disabled document and of a document of    *)
(* chat c2.                                                                *)
DocRequests(n) ==
    {AskRequest("c1", NumberedText("Q", n), ids, <<>>) :
        ids \in {<<>>, << <<>> >>, << <<"d1">> >>, << <<"d2", "d3">> >>}}

InitDocs ==
    /\ call = NoCall
    /\ \E token \in Tokens, mounted \in Routers :
          app = [Process("STARTING", token, mounted, TwoChatDocuments)
                    EXCEPT !.chats = {"c1", "c2"}]

(* An ask request arrives and its handler is scheduled. *)
ReceiveAsk ==
    /\ app.phase = "SERVING"
    /\ call = NoCall
    /\ Len(app.tasks) + 1 \in TaskIds
    /\ \E r \in DocRequests(Len(app.tasks) + 1) :
          app' = [app EXCEPT !.tasks = Append(@, Task(r))]
    /\ UNCHANGED call

(* update_document_enabled: the handler awaits set_document_enabled and   *)
(* answers (404 when no row matched, which changes nothing).              *)
UpdateDocumentEnabled ==
    /\ app.phase = "SERVING"
    /\ call = NoCall
    /\ \E chat_id \in app.chats, enabled \in BOOLEAN :
          app' = [app EXCEPT
                    !.docs = set_document_enabled(@, chat_id, "d1", enabled)]
    /\ UNCHANGED call

NextDocs ==
    \/ Lifespan
    \/ ReceiveAsk
    \/ UpdateDocumentEnabled
    \/ \E i \in 1..Len(app.tasks) : AskGetChat(i)
    \/ \E i \in 1..Len(app.tasks) : AskGetDocuments(i)
    \/ \E i \in 1..Len(app.tasks) : AskGetMessages(i)
    \/ Normalize
    \/ CheckEmpty
    \/ ResolveModel
    \/ GetClientEnv
    \/ InvokeBackend
    \/ RetryWait
    \/ ExtractAnswer
    \/ \E i \in 1..Len(app.tasks) : AskAnswered(i)
    \/ \E i \in 1..Len(app.tasks) : AskAddMessage(i)
    \/ \E i \in 1..Len(app.tasks) : AskUpdateTitle(i)

SpecDocs == InitDocs /\ [][NextDocs]_vars

---------------------------------------------------------------------------
(* text occurs in ctx. *)
Contains(ctx, text) ==
    \E k \in 0..(Len(ctx) - Len(text)) : SubSeq(ctx, k + 1, k + Len(text)) = text

(* The contexts of the backend calls made so far for the request whose    *)
(* answer_with_history call is in progress.                                *)
ContextsSent == {Calls(call)[k].context : k \in 1..Len(Calls(call))}

(* C26 as stated, for a request without document_ids: no context sent to  *)
(* the backend holds the text of a document of its chat that is disabled  *)
(* when the backend is called, or of a document of another chat. (While   *)
(* a call is in progress no handler runs, so the flags in this state are  *)
(* those at the time of its backend calls.)                                *)
C26_DisabledNeverSent ==
    (app.phase = "SERVING" /\ app.running # 0) =>
        LET request == app.tasks[app.running].request
        IN  request.document_ids = <<>> =>
               \A ctx \in ContextsSent, k \in 1..Len(app.docs) :
                   (~app.docs[k].enabled \/ app.docs[k].chat_id # request.chat_id)
                      => ~Contains(ctx, app.docs[k].extracted_text)

(* C27 as stated, for a request with a document_ids list: no context sent *)
(* to the backend holds the text of a document whose id is not in the     *)
(* list or which belongs to another chat.                                  *)
C27_OnlyListedDocuments ==
    (app.phase = "SERVING" /\ app.running # 0) =>
        LET request == app.tasks[app.running].request
        IN  request.document_ids # <<>> =>
               \A ctx \in ContextsSent, k \in 1..Len(app.docs) :
                   (\/ app.docs[k].chat_id # request.chat_id
                    \/ \A j \in 1..Len(request.document_ids[1]) :
                          request.document_ids[1][j] # app.docs[k].id)
                      => ~Contains(ctx, app.docs[k].extracted_text)

---------------------------------------------------------------------------
(* The tasks that have written the title: a handler calls                 *)
(* update_chat_title exactly when it read no message and a null title,    *)
(* and responds after the update.                                          *)
TitleWriters ==
    {i \in 1..Len(app.tasks) :
        /\ app.tasks[i].pc = "DONE"
        /\ app.tasks[i].messages = <<>>
        /\ app.tasks[i].chat[1].title = <<>>}

(* C29 as stated, for a chat that starts with no title and no message:    *)
(* at most one request has written the title, and a title that is set is  *)
(* the one derived from the question of the first message stored for the  *)
(* chat.                                                                   *)
C29_TitleOnceFromFirstMessage ==
    app.phase = "SERVING" =>
        /\ Cardinality(TitleWriters) <= 1
        /\ app.title # <<>> =>
              LET stored == ChatRows(app.rows, "c1")
              IN  /\ stored # <<>>
                  /\ app.title = <<_derive_title(stored[1].question)>>

---------------------------------------------------------------------------
(* The server with a chat that may already have a title or a message, and *)
(* ask requests whose questions have more than 5 words, words separated   *)
(* by several kinds of whitespace, and a title longer than 50 characters. *)

(* A word of 12 characters that begins with the number of the request. *)
LongWord(n) == NumberedText("Q", n) \o [k \in 1..10 |-> "k"]

TitleQuestions(n) ==
    {NumberedText("Q", n),
     <<" ">> \o NumberedText("Q", n)
        \o <<" ", " ", "b", "\n", "c", " ", "d", "\t", "e", " ", "f", " ">>,
     join(<<" ">>, [k \in 1..5 |-> LongWord(n)])}

TitleRequests(n) ==
    {AskRequest("c1", q, <<>>, <<>>) : q \in TitleQuestions(n)}

(* The chat as created: with or without a title (create_chat(title)),    *)
(* with or without an earlier message.                                     *)
InitTitles ==
    /\ call = NoCall
    /\ \E token \in Tokens, mounted \in Routers,
          title \in {<<>>, << <<"T">> >>},
          rows \in {<<>>, <<MessageRow(1, "c1", <<"P">>, <<"y">>,
                                       QA_DEFAULT_MODEL, 0)>>} :
          app = [Process("STARTING", token, mounted,
                         <<Document("d1", "c1", <<"a">>, TRUE)>>)
                    EXCEPT !.title = title, !.rows = rows]

(* An ask request arrives and its handler is scheduled. *)
ReceiveQuestion ==
    /\ app.phase = "SERVING"
    /\ call = NoCall
    /\ Len(app.tasks) + 1 \in TaskIds
    /\ \E r \in TitleRequests(Len(app.tasks) + 1) :
          app' = [app EXCEPT !.tasks = Append(@, Task(r))]
    /\ UNCHANGED call

NextTitles ==
    \/ Lifespan
    \/ ReceiveQuestion
    \/ \E i \in 1..Len(app.tasks) : AskGetChat(i)
    \/ \E i \in 1..Len(app.tasks) : AskGetDocuments(i)
    \/ \E i \in 1..Len(app.tasks) : AskGetMessages(i)
    \/ Normalize
    \/ CheckEmpty
    \/ ResolveModel
    \/ GetClientEnv
    \/ InvokeBackend
    \/ RetryWait
    \/ ExtractAnswer
    \/ \E i \in 1..Len(app.tasks) : AskAnswered(i)
    \/ \E i \in 1..Len(app.tasks) : AskAddMessage(i)
    \/ \E i \in 1..Len(app.tasks) : AskUpdateTitle(i)

SpecTitles == InitTitles /\ [][NextTitles]_vars

---------------------------------------------------------------------------
(* The positions of s at which a word (a maximal run of characters that   *)
(* are not whitespace) begins.                                             *)
WordStarts(s) ==
    {k \in 1..Len(s) :
        s[k] \notin Whitespace /\ (k = 1 \/ s[k - 1] \in Whitespace)}

(* The word of s that begins at position k. *)
WordAt(s, k) ==
    LET ends == {j \in k..Len(s) :
                    \A m \in k..j : s[m] \notin Whitespace}
    IN  SubSeq(s, k, CHOOSE j \in ends : \A m \in ends : j >= m)

(* The first n words of s (all of them when s has fewer), in order. *)
FirstWords(s, n) ==
    LET starts == WordStarts(s)
        count == IF Cardinality(starts) < n THEN Cardinality(starts) ELSE n
    IN  [i \in 1..count |->
            WordAt(s, CHOOSE k \in starts :
                         Cardinality({j \in starts : j < k}) = i - 1)]

(* words written one after the other with one blank between neighbours. *)
RECURSIVE Spaced(_)
Spaced(words) ==
    IF words = <<>> THEN <<>>
    ELSE IF Len(words) = 1 THEN words[1]
    ELSE Spaced(SubSeq(words, 1, Len(words) - 1)) \o <<" ">> \o words[Len(words)]

(* The first 5 words of the question, cut to 50 characters. *)
FirstWordsCut(question) ==
    LET title == Spaced(FirstWords(question, 5))
    IN  SubSeq(title, 1, IF Len(title) < 50 THEN Len(title) ELSE 50)

(* C28: a step changes the title of the chat only if it is the title      *)
(* update of a request whose handler read no message and a null title,    *)
(* and the title it writes is the first 5 whitespace-separated words of   *)
(* that request's question cut to 50 characters; so a request whose       *)
(* handler read a title or a message leaves the title as it is.           *)
C28_AutomaticTitle ==
    [][app.phase = "SERVING" =>
          /\ app'.title # app.title =>
                \E i \in 1..Len(app.tasks) :
                    /\ app.tasks[i].pc = "UPDATE_TITLE"
                    /\ app'.tasks[i].pc = "DONE"
                    /\ app.tasks[i].messages = <<>>
                    /\ app.tasks[i].chat[1].title = <<>>
                    /\ app'.title =
                          <<FirstWordsCut(app.tasks[i].request.question)>>
          /\ \A i \in 1..Len(app.tasks) :
                (/\ app.tasks[i].pc \notin {"GET_CHAT", "GET_DOCUMENTS",
                                             "GET_MESSAGES"}
                 /\ \/ app.tasks[i].messages # <<>>
                    \/ app.tasks[i].chat[1].title # <<>>) =>
                   /\ app.tasks[i].pc # "UPDATE_TITLE"
                   /\ app'.tasks[i] # app.tasks[i] => app'.title = app.title
    ]_vars

C28_Witness ==
    /\ app.phase = "SERVING"
    /\ Len(app.tasks) = 2
    /\ app.tasks[1].pc = "DONE"
    /\ app.tasks[1].messages = <<>>
    /\ app.tasks[2].pc = "DONE"
    /\ app.tasks[2].messages # <<>>
    /\ app.title # <<>>
    /\ Len(app.title[1]) = 50
    /\ app.title[1] = SubSeq(app.tasks[1].request.question, 1, 50)

====
